---- MODULE Spec2Model ----
(***************************************************************************)
(* PersonalFinanceDashboard (Personal_finance_tracker.py): the in-memory   *)
(* transaction table, the CSV file behind it, and the four aggregations.   *)
(*                                                                         *)
(* A date is a day number; a calendar month is DaysPerMonth consecutive    *)
(* days.  An amount is an integer.  A float that a division produces is a  *)
(* record (finite num/den, inf, -inf or nan), as IEEE-754 division by zero *)
(* does not raise in pandas.                                               *)
(***************************************************************************)
EXTENDS Integers, Sequences, FiniteSets, TLC

VARIABLES
    data_file,      \* finance_data.csv: [exists, rows]
    transactions,   \* self.transactions, a sequence of rows (<<>> before load_data)
    pc,             \* "start": before __init__ has run; "cli": inside run_cli
    call,           \* the last operation invoked, with its arguments
    result          \* what that operation returned or raised

vars == <<data_file, transactions, pc, call, result>>

----------------------------------------------------------------------------
(* Bounds of the model *)

MaxDay == 2          \* dates are the days 0..MaxDay
DaysPerMonth == 2    \* length of a calendar month, in days
MaxLen == 2          \* add_transaction is taken while the store is shorter
SampleRows == 1      \* rows of the sample dataset (30 in the program)

Days == 0..MaxDay
AmountInputs == {-1, 0, 1}
CategoryInputs == {"Income", "Food", "Misc"}
DescriptionInputs == {""}    \* the CLI accepts an empty description

----------------------------------------------------------------------------
(* Values *)

categories ==
    {"Food", "Transportation", "Housing", "Entertainment", "Utilities",
     "Shopping", "Health", "Education", "Income", "Other"}

\* The missing-value marker read_csv puts in an empty text cell.
NaN == "NaN"

Abs(x) == IF x < 0 THEN -x ELSE x

\* dt.to_period('M')
Month(d) == d \div DaysPerMonth

Row(date, amount, category, description) ==
    [Date |-> date, Amount |-> amount, Category |-> category,
     Description |-> description]

----------------------------------------------------------------------------
(* CSV: DataFrame.to_csv(index=False) and pd.read_csv(parse_dates=['Date']) *)

\* An ISO date text: the month and the day within it.
FormatDate(d) == <<d \div DaysPerMonth, d % DaysPerMonth>>
ParseDate(t) == t[1] * DaysPerMonth + t[2]

\* A decimal text: the sign and the digits.
FormatAmount(a) == [minus |-> a < 0, digits |-> Abs(a)]
ParseAmount(t) == IF t.minus THEN -t.digits ELSE t.digits

\* Text cells: to_csv writes a missing value as the empty cell (na_rep=''),
\* and read_csv reads the empty cell as a missing value.
FormatField(s) == IF s = NaN THEN "" ELSE s
ParseField(t) == IF t = "" THEN NaN ELSE t

ToCsv(df) ==
    [i \in DOMAIN df |->
        [Date |-> FormatDate(df[i].Date),
         Amount |-> FormatAmount(df[i].Amount),
         Category |-> FormatField(df[i].Category),
         Description |-> FormatField(df[i].Description)]]

ReadCsv(rows) ==
    [i \in DOMAIN rows |->
        Row(ParseDate(rows[i].Date), ParseAmount(rows[i].Amount),
            ParseField(rows[i].Category), ParseField(rows[i].Description))]

NoFile == [exists |-> FALSE, rows |-> <<>>]
FileWith(rows) == [exists |-> TRUE, rows |-> rows]

save_data_stale(df) == FileWith(ToCsv(transactions))

\* save_data: overwrite the file with the whole table.
save_data(df) == FileWith(ToCsv(df))

----------------------------------------------------------------------------
(* Sign convention *)

\* load_data: Income -> abs, everything else -> -abs.
NormalizeSigns(df) ==
    [i \in DOMAIN df |->
        [df[i] EXCEPT !.Amount =
            IF df[i].Category = "Income" THEN Abs(df[i].Amount)
            ELSE -Abs(df[i].Amount)]]

\* add_transaction: the two sign flips.
NormalizeAmount(amount, category) ==
    IF category # "Income" /\ amount > 0 THEN -amount
    ELSE IF category = "Income" /\ amount < 0 THEN Abs(amount)
    ELSE amount

----------------------------------------------------------------------------
(* The sample dataset of a first start *)

\* np.random.randint(-100, 100), scaled to the amounts of the model.
SampleAmounts == AmountInputs

SampleCategories == categories \cap CategoryInputs

\* Rows for i = SampleRows, ..., 1 days before now, in that order.
SampleDatasets(now) ==
    {[k \in 1..SampleRows |->
        Row(now - (SampleRows - k + 1), am[k], ct[k],
            "Sample Transaction " \o ToString(k))] :
        am \in [1..SampleRows -> SampleAmounts],
        ct \in [1..SampleRows -> SampleCategories]}

----------------------------------------------------------------------------
(* Table helpers *)

ConcatReplacingLast(df, new) ==
    IF df = <<>> THEN <<new>> ELSE [df EXCEPT ![Len(df)] = new]

\* pd.concat([df, new], ignore_index=True)
Concat(df, new) == Append(df, new)

SortValuesAscending(df) ==
    {s \in {[i \in DOMAIN df |-> df[p[i]]] : p \in Permutations(DOMAIN df)} :
        \A i \in 1..(Len(df) - 1) : s[i].Date <= s[i + 1].Date}

\* sort_values('Date', ascending=False): the default sort is not stable, so
\* every descending arrangement of the rows is a possible outcome.
SortValues(df) ==
    {s \in {[i \in DOMAIN df |-> df[p[i]]] : p \in Permutations(DOMAIN df)} :
        \A i \in 1..(Len(df) - 1) : s[i].Date >= s[i + 1].Date}

RECURSIVE SumAmount(_)
SumAmount(df) ==
    IF df = <<>> THEN 0 ELSE Head(df).Amount + SumAmount(Tail(df))

RECURSIVE SortedSeq(_)
\* The elements of a set of integers in ascending order.
SortedSeq(S) ==
    IF S = {} THEN <<>>
    ELSE LET lo == CHOOSE x \in S : \A y \in S : x <= y
         IN <<lo>> \o SortedSeq(S \ {lo})

----------------------------------------------------------------------------
(* get_balance_over_time_history *)

\* groupby(Date.dt.date)['Amount'].sum(): one entry per date that has rows.
DailySums(df) ==
    [d \in {df[i].Date : i \in DOMAIN df} |->
        SumAmount(SelectSeq(df, LAMBDA r : r.Date = d))]

MinDate(df) == CHOOSE d \in {df[i].Date : i \in DOMAIN df} :
                   \A i \in DOMAIN df : d <= df[i].Date
MaxDate(df) == CHOOSE d \in {df[i].Date : i \in DOMAIN df} :
                   \A i \in DOMAIN df : d >= df[i].Date

\* pd.date_range(start, end, freq='D'): both ends included.
DateRange(start, end) == [k \in 1..(end - start + 1) |-> start + k - 1]

\* Series.reindex(index, fill_value)
Reindex(series, index, fill_value) ==
    [k \in DOMAIN index |->
        IF index[k] \in DOMAIN series THEN series[index[k]] ELSE fill_value]

NoCumSum(s) == s

RECURSIVE CumSum(_)
\* Series.cumsum()
CumSum(s) ==
    IF s = <<>> THEN <<>>
    ELSE LET before == CumSum(SubSeq(s, 1, Len(s) - 1))
         IN Append(before,
                   (IF before = <<>> THEN 0 ELSE before[Len(before)]) + s[Len(s)])

\* On an empty table min() and max() are NaT and pd.date_range raises
\* ValueError ("Neither `start` nor `end` can be NaT"); the function has no
\* guard and defines no error of its own.
get_balance_over_time_history(df) ==
    IF df = <<>> THEN [status |-> "error", error |-> "ValueError"]
    ELSE LET date_range == DateRange(MinDate(df), MaxDate(df))
             daily_sums == Reindex(DailySums(df), date_range, 0)
         IN [status |-> "ok", index |-> date_range, values |-> CumSum(daily_sums)]

----------------------------------------------------------------------------
(* get_monthly_spending_by_category *)

ExpensesAnySign(df) ==
    LET e == SelectSeq(df, LAMBDA r : r.Amount # 0)
    IN [i \in DOMAIN e |-> [e[i] EXCEPT !.Amount = Abs(e[i].Amount)]]

\* df[df['Amount'] < 0] with Amount replaced by its absolute value.
Expenses(df) ==
    LET e == SelectSeq(df, LAMBDA r : r.Amount < 0)
    IN [i \in DOMAIN e |-> [e[i] EXCEPT !.Amount = Abs(e[i].Amount)]]

\* pivot_table(index='Month', columns='Category', values='Amount',
\*             aggfunc='sum', fill_value=0)
PivotTable(df, fill_value) ==
    LET months == {Month(df[i].Date) : i \in DOMAIN df}
        cats == {df[i].Category : i \in DOMAIN df}
    IN [index |-> SortedSeq(months),
        columns |-> cats,
        cell |-> [m \in months, c \in cats |->
                    LET group == SelectSeq(df, LAMBDA r :
                                     Month(r.Date) = m /\ r.Category = c)
                    IN IF group = <<>> THEN fill_value ELSE SumAmount(group)]]

get_monthly_spending_by_category(df) == PivotTable(Expenses(df), 0)

----------------------------------------------------------------------------
(* get_income_vs_expenses_chart *)

Finite(num, den) == [kind |-> "finite", num |-> num, den |-> den]
Inf == [kind |-> "inf", num |-> 0, den |-> 0]
NegInf == [kind |-> "-inf", num |-> 0, den |-> 0]
FloatNaN == [kind |-> "nan", num |-> 0, den |-> 0]
Zero == Finite(0, 1)

\* float64 division: x/0 is inf or -inf, 0/0 is nan; nothing is raised.
FloatDiv(a, b) ==
    IF b # 0 THEN Finite(a, b)
    ELSE IF a > 0 THEN Inf
    ELSE IF a < 0 THEN NegInf
    ELSE FloatNaN

FloatTimes(x, n) ==
    IF x.kind = "finite" THEN Finite(x.num * n, x.den) ELSE x

\* Series.fillna(value): replaces nan only (inf and -inf are not missing).
FillNa(x, value) == IF x.kind = "nan" THEN value ELSE x

\* groupby('Month')['Amount'].sum()
GroupByMonthSum(df) ==
    [m \in {Month(df[i].Date) : i \in DOMAIN df} |->
        SumAmount(SelectSeq(df, LAMBDA r : Month(r.Date) = m))]

get_income_vs_expenses_chart(df) ==
    LET monthly_expenses == GroupByMonthSum(Expenses(df))
        monthly_income == GroupByMonthSum(SelectSeq(df, LAMBDA r : r.Amount > 0))
        months == DOMAIN monthly_income \cup DOMAIN monthly_expenses
        Income(m) == IF m \in DOMAIN monthly_income THEN monthly_income[m] ELSE 0
        Exp(m) == IF m \in DOMAIN monthly_expenses THEN monthly_expenses[m] ELSE 0
        Savings(m) == Income(m) - Exp(m)
    IN [index |-> SortedSeq(months),
        row |-> [m \in months |->
                   [Income |-> Income(m),
                    Expenses |-> Exp(m),
                    Savings |-> Savings(m),
                    Savings_Rate |->
                        FillNa(FloatTimes(FloatDiv(Savings(m), Income(m)), 100),
                               Zero)]]]

----------------------------------------------------------------------------
(* get_current_month_spending *)

get_current_month_spending(df, now) ==
    LET current_month == Month(now)
        current_expenses ==
            Expenses(SelectSeq(df, LAMBDA r : Month(r.Date) = current_month))
    IN [c \in {current_expenses[i].Category : i \in DOMAIN current_expenses} |->
           SumAmount(SelectSeq(current_expenses, LAMBDA r : r.Category = c))]

----------------------------------------------------------------------------
(* The program *)

Ok == [status |-> "ok"]

\* finance_data.csv when the process starts: absent, header only, the sample
\* an earlier first start left behind (written before its signs were
\* normalized), or rows that satisfy the sign convention (readers may not
\* assume an order of the rows).
InitialFiles ==
    {NoFile,
     FileWith(<<>>),
     FileWith(ToCsv(<<Row(0, -1, "Income", "Sample Transaction 1")>>)),
     FileWith(ToCsv(<<Row(0, -1, "Food", "lunch")>>)),
     FileWith(ToCsv(<<Row(0, -1, "Food", NaN), Row(MaxDay, 1, "Income", "salary")>>))}

Init ==
    /\ data_file \in InitialFiles
    /\ transactions = <<>>
    /\ pc = "start"
    /\ call = [op |-> "none"]
    /\ result = Ok

\* __init__ -> load_data
LoadData ==
    /\ pc = "start"
    /\ IF data_file.exists
         THEN /\ transactions' = NormalizeSigns(ReadCsv(data_file.rows))
              /\ UNCHANGED data_file
         ELSE \E now \in SampleRows..MaxDay : \E sample \in SampleDatasets(now) :
              /\ data_file' = save_data(sample)
              /\ transactions' = NormalizeSigns(sample)
    /\ pc' = "cli"
    /\ call' = [op |-> "load_data"]
    /\ result' = Ok

SaveData ==
    /\ pc = "cli"
    /\ data_file' = save_data(transactions)
    /\ call' = [op |-> "save_data"]
    /\ result' = Ok
    /\ UNCHANGED <<transactions, pc>>

AddTransactionValidated(date, amount, category, description) ==
    /\ pc = "cli"
    /\ Len(transactions) < MaxLen
    /\ IF category \in categories
         THEN LET new_transaction ==
                      Row(date, NormalizeAmount(amount, category), category,
                          description)
              IN \E sorted \in SortValues(Concat(transactions, new_transaction)) :
                     /\ transactions' = sorted
                     /\ data_file' = save_data(sorted)
                     /\ result' = Ok
         ELSE /\ result' = [status |-> "error", error |-> "InvalidCategory"]
              /\ UNCHANGED <<transactions, data_file>>
    /\ call' = [op |-> "add_transaction", category |-> category]
    /\ UNCHANGED pc

AddTransaction(date, amount, category, description) ==
    /\ pc = "cli"
    /\ Len(transactions) < MaxLen
    /\ LET new_transaction ==
               Row(date, NormalizeAmount(amount, category), category, description)
       IN \E sorted \in SortValues(Concat(transactions, new_transaction)) :
              /\ transactions' = sorted
              /\ data_file' = save_data(sorted)
    /\ call' = [op |-> "add_transaction", category |-> category]
    /\ result' = Ok
    /\ UNCHANGED pc

GetBalanceOverTimeHistory ==
    /\ pc = "cli"
    /\ call' = [op |-> "get_balance_over_time_history"]
    /\ result' = get_balance_over_time_history(transactions)
    /\ UNCHANGED <<data_file, transactions, pc>>

GetMonthlySpendingByCategory ==
    /\ pc = "cli"
    /\ call' = [op |-> "get_monthly_spending_by_category"]
    /\ result' = [status |-> "ok",
                  value |-> get_monthly_spending_by_category(transactions)]
    /\ UNCHANGED <<data_file, transactions, pc>>

GetIncomeVsExpensesChart ==
    /\ pc = "cli"
    /\ call' = [op |-> "get_income_vs_expenses_chart"]
    /\ result' = [status |-> "ok",
                  value |-> get_income_vs_expenses_chart(transactions)]
    /\ UNCHANGED <<data_file, transactions, pc>>

GetCurrentMonthSpending(now) ==
    /\ pc = "cli"
    /\ call' = [op |-> "get_current_month_spending", now |-> now]
    /\ result' = [status |-> "ok",
                  value |-> get_current_month_spending(transactions, now)]
    /\ UNCHANGED <<data_file, transactions, pc>>

Next ==
    \/ LoadData
    \/ SaveData
    \/ \E date \in Days, amount \in AmountInputs,
          category \in CategoryInputs, description \in DescriptionInputs :
           AddTransaction(date, amount, category, description)
    \/ GetBalanceOverTimeHistory
    \/ GetMonthlySpendingByCategory
    \/ GetIncomeVsExpensesChart
    \/ \E now \in Days : GetCurrentMonthSpending(now)

Spec == Init /\ [][Next]_vars
----------------------------------------------------------------------------
(* Properties *)

Range(s) == {s[i] : i \in DOMAIN s}

\* The same rows, in any order.
IsPermutationOf(s, df) ==
    /\ Len(s) = Len(df)
    /\ \E p \in Permutations(DOMAIN df) : \A i \in DOMAIN df : s[i] = df[p[i]]

BagOf(s) == [r \in Range(s) |-> Cardinality({i \in DOMAIN s : s[i] = r})]

RemoveAt(s, j) == [i \in 1..(Len(s) - 1) |-> IF i < j THEN s[i] ELSE s[i + 1]]

ComputeOps ==
    {"get_balance_over_time_history", "get_monthly_spending_by_category",
     "get_income_vs_expenses_chart", "get_current_month_spending"}

RECURSIVE SumAt(_, _)
\* The sum of the amounts of the rows of df at the positions I.
SumAt(df, I) ==
    IF I = {} THEN 0
    ELSE LET i == CHOOSE x \in I : TRUE
         IN df[i].Amount + SumAt(df, I \ {i})

\* C1: after load_data and any adds, every stored Income row has amount > 0
\* and every row of another category has amount <= 0.
SignConvention ==
    pc = "cli" =>
        \A i \in DOMAIN transactions :
            IF transactions[i].Category = "Income"
            THEN transactions[i].Amount > 0
            ELSE transactions[i].Amount <= 0

\* C2: in the monthly summary, savings = income - expenses for every month
\* present, and the savings rate is 0 whenever income is 0.
MonthlySummaryContract ==
    call.op = "get_income_vs_expenses_chart" =>
        \A m \in DOMAIN result.value.row :
            LET r == result.value.row[m]
            IN /\ r.Savings = r.Income - r.Expenses
               /\ r.Income = 0 => r.Savings_Rate = Zero

\* C3: on a non-empty store the balance history has one entry per day from
\* the earliest to the latest transaction date inclusive, the entry of day d
\* is the sum of the amounts dated on or before d, and the last entry is the
\* sum of all amounts.
BalanceHistoryCorrect ==
    (call.op = "get_balance_over_time_history" /\ transactions # <<>>) =>
        LET lo == MinDate(transactions)
            hi == MaxDate(transactions)
        IN /\ result.status = "ok"
           /\ Len(result.index) = hi - lo + 1
           /\ Len(result.values) = hi - lo + 1
           /\ \A k \in 1..(hi - lo + 1) :
                  /\ result.index[k] = lo + k - 1
                  /\ result.values[k] =
                         SumAt(transactions, {i \in DOMAIN transactions :
                                     transactions[i].Date <= lo + k - 1})
           /\ result.values[hi - lo + 1] = SumAt(transactions, DOMAIN transactions)

BalanceHistoryWitness ==
    /\ call.op = "get_balance_over_time_history"
    /\ result.status = "ok"
    /\ Len(result.index) = 3
    /\ \E k \in DOMAIN result.index :
           \A i \in DOMAIN transactions : transactions[i].Date # result.index[k]
    /\ result.values[1] # result.values[3]

EmptyDatasetDefined ==
    (call.op = "get_balance_over_time_history" /\ transactions = <<>>) =>
        (result.status = "error" /\ result.error = "EmptyDataset")

RoundTrip ==
    pc = "cli" =>
        /\ BagOf(NormalizeSigns(ReadCsv(ToCsv(transactions)))) = BagOf(transactions)
        /\ NormalizeSigns(NormalizeSigns(ReadCsv(data_file.rows)))
               = NormalizeSigns(ReadCsv(data_file.rows))

\* C8: in the monthly category matrix the columns are the categories of the
\* negative-amount rows, the rows are their months in ascending order, and
\* each cell is the sum of the magnitudes of the negative-amount rows of
\* that month and category (0 when there are none); positive amounts never
\* contribute.
MonthlyMatrixCorrect ==
    call.op = "get_monthly_spending_by_category" =>
        LET v == result.value
            neg == {i \in DOMAIN transactions : transactions[i].Amount < 0}
        IN /\ v.columns = {transactions[i].Category : i \in neg}
           /\ Range(v.index) = {Month(transactions[i].Date) : i \in neg}
           /\ \A k \in 1..(Len(v.index) - 1) : v.index[k] < v.index[k + 1]
           /\ \A m \in Range(v.index), c \in v.columns :
                  v.cell[m, c] =
                      -SumAt(transactions, {i \in neg :
                           /\ Month(transactions[i].Date) = m
                           /\ transactions[i].Category = c})

MonthlyMatrixWitness ==
    /\ call.op = "get_monthly_spending_by_category"
    /\ Len(transactions) = 2
    /\ \E m \in Range(result.value.index), c \in result.value.columns :
           result.value.cell[m, c] = 2

\* C9: an add makes the store one row longer and keeps every row it held
\* (positions may change); the four compute operations change neither the
\* store nor the file.
AppendOnlyAndFrame ==
    [][/\ call'.op = "add_transaction" =>
              /\ Len(transactions') = Len(transactions) + 1
              /\ \E j \in DOMAIN transactions' :
                     IsPermutationOf(RemoveAt(transactions', j), transactions)
       /\ call'.op \in ComputeOps => UNCHANGED <<transactions, data_file>>]_vars

AppendOnlyWitness ==
    /\ call.op = "add_transaction"
    /\ Len(transactions) = 2
    /\ transactions[1] = transactions[2]

\* C10 as stated: once load_data has returned, and after every add, the file
\* holds the same multiset of rows as the store (compared as to_csv writes
\* them).
PersistedAgreesWithMemory ==
    pc = "cli" =>
        /\ data_file.exists
        /\ BagOf(data_file.rows) = BagOf(ToCsv(transactions))

\* C10 amended: after every add and every save_data the file holds exactly
\* the rows of the store as to_csv writes them.
PersistedAfterAddOrSave ==
    call.op \in {"add_transaction", "save_data"} =>
        /\ data_file.exists
        /\ BagOf(data_file.rows) = BagOf(ToCsv(transactions))

PersistedWitness ==
    /\ call.op = "add_transaction"
    /\ Len(data_file.rows) = 2
    /\ BagOf(data_file.rows) = BagOf(ToCsv(transactions))
    /\ data_file.rows[1].Category # data_file.rows[2].Category
====
